---- MODULE Spec2Model ----
(***************************************************************************)
(* Interaction state machine of professional-chess-game.                  *)
(*                                                                         *)
(* The repository holds two user interfaces over the chess.js engine:      *)
(*   "board" : src/unnamed/part_000 (App) + src/src/components/ChessBoard  *)
(*   "app"   : src/src/App.tsx (self-contained App)                        *)
(* Both are modelled; the variable ui says which one was mounted.          *)
(*                                                                         *)
(* chess.js is an external library.  It is modelled by a small board game  *)
(* with the same interface (kings, a rook, pawns that promote; legality =  *)
(* own king not left attacked; checkmate, stalemate, bare kings).          *)
(***************************************************************************)
EXTENDS Integers, Sequences, FiniteSets, TLC

VARIABLES
  ui,              \* which interface is mounted: "board" or "app"
  game,            \* the engine object held in React state
  moveHistory,     \* board: Move records; app: SAN notations
  status,          \* board: status text
  gameEnded,       \* board: game-ended flag
  selectedSquare,  \* ChessBoard / App selection (NoSquare = null)
  hintSquares,     \* ChessBoard hint list (as a set)
  lastMove,        \* app: {from, to} or NoMove
  last             \* observation of the last handler run (not program state)

vars == <<ui, game, moveHistory, status, gameEnded, selectedSquare,
          hintSquares, lastMove, last>>

----------------------------------------------------------------------------
(* Bounds *)
NumFiles == 3
NumRanks == 4
MaxPlies == 2

----------------------------------------------------------------------------
(* The engine: squares, pieces, positions *)

Squares == (1..NumFiles) \X (1..NumRanks)
NoSquare == <<0, 0>>

Empty == [type |-> "-", color |-> "-"]
Pc(t, c) == [type |-> t, color |-> c]

Other(c) == IF c = "w" THEN "b" ELSE "w"
Dir(c) == IF c = "w" THEN 1 ELSE -1
LastRank(c) == IF c = "w" THEN NumRanks ELSE 1

Abs(x) == IF x < 0 THEN -x ELSE x
Sgn(x) == IF x > 0 THEN 1 ELSE IF x < 0 THEN -1 ELSE 0
Max(a, b) == IF a > b THEN a ELSE b

\* new Chess(): the starting position, white to move, move number 1
InitialBoard ==
  [s \in Squares |->
     CASE s = <<1, 3>> -> Pc("k", "w")
       [] s = <<2, 2>> -> Pc("r", "w")
       [] s = <<3, 3>> -> Pc("p", "w")
       [] s = <<3, 1>> -> Pc("k", "b")
       [] s = <<1, 2>> -> Pc("p", "b")
       [] OTHER        -> Empty]

DefaultFen == [board |-> InitialBoard, turn |-> "w", halfmove |-> 0, fullmove |-> 1]

\* game.fen(): the serialization holds the position, never the move list
fen(g) == [board |-> g.board, turn |-> g.turn, halfmove |-> g.halfmove,
           fullmove |-> g.fullmove]

\* new Chess(fen): load a position; the new object has an empty move list
Chess(f) == [board |-> f.board, turn |-> f.turn, halfmove |-> f.halfmove,
             fullmove |-> f.fullmove,
             history |-> <<>>]

turn(g) == g.turn
get(g, s) == g.board[s]

\* the value of an expression bound once: Only({e(x) : x \in {v}}) is e(v)
Only(S) == CHOOSE x \in S : TRUE

\* squares strictly between two aligned squares
Between(a, b) ==
  LET df == b[1] - a[1]
      dr == b[2] - a[2]
      n  == Max(Abs(df), Abs(dr))
  IN  {<<a[1] + k * Sgn(df), a[2] + k * Sgn(dr)>> : k \in 1..(n - 1)}

Attacks(b, from, to) ==
  LET p  == b[from]
      df == to[1] - from[1]
      dr == to[2] - from[2]
      clear == \A s \in Between(from, to) : b[s] = Empty
  IN  /\ from # to
      /\ CASE p.type = "k" -> Max(Abs(df), Abs(dr)) = 1
           [] p.type = "r" -> (df = 0 \/ dr = 0) /\ clear
           [] p.type = "q" -> (df = 0 \/ dr = 0 \/ Abs(df) = Abs(dr)) /\ clear
           [] p.type = "p" -> Abs(df) = 1 /\ dr = Dir(p.color)
           [] OTHER        -> FALSE

PseudoLegal(b, from, to) ==
  LET p == b[from]
  IN  /\ p # Empty
      /\ b[to].color # p.color
      /\ IF p.type = "p"
           THEN \/ to[1] = from[1] /\ to[2] = from[2] + Dir(p.color) /\ b[to] = Empty
                \/ Attacks(b, from, to) /\ b[to] # Empty
           ELSE Attacks(b, from, to)

Attacked(b, c) ==
  \E k \in Squares :
     /\ b[k] = Pc("k", c)
     /\ \E s \in Squares : b[s].color = Other(c) /\ Attacks(b, s, k)

IsPromotion(b, from, to) ==
  b[from].type = "p" /\ to[2] = LastRank(b[from].color)

Place(b, from, to, promo) ==
  [b EXCEPT ![from] = Empty,
            ![to]   = IF IsPromotion(b, from, to)
                        THEN Pc(promo, b[from].color) ELSE b[from]]

PromotionPieces == {"q", "r"}
NoPromotion == "-"

\* game.moves({square, verbose: true}): the legal moves of the piece on
\* square; none when the square is empty or holds a piece not to move
moves(g, square) ==
  IF g.board[square].color # g.turn THEN {}
  ELSE {m \in [from : {square}, to : Squares,
               promotion : PromotionPieces \cup {NoPromotion}] :
          /\ PseudoLegal(g.board, m.from, m.to)
          /\ (m.promotion # NoPromotion) <=> IsPromotion(g.board, m.from, m.to)
          /\ ~Attacked(Place(g.board, m.from, m.to, m.promotion), g.turn)}

\* game.moves({verbose: true}): every legal move of the side to move
LegalMoves(g) == UNION {moves(g, s) : s \in Squares}

\* the side to move has a legal move
HasLegalMove(g) == \E s \in Squares : moves(g, s) # {}

inCheck(g) == Attacked(g.board, g.turn)
isCheckmate(g) == inCheck(g) /\ ~HasLegalMove(g)
isStalemate(g) == ~inCheck(g) /\ ~HasLegalMove(g)
isInsufficientMaterial(g) ==
  \A s \in Squares : g.board[s] = Empty \/ g.board[s].type = "k"
\* the fifty-move rule: the half-move clock of the FEN counts the plies since
\* the last pawn move or capture; the engine's limit of 100 is scaled to the
\* ply bound, so that the rule fires within MaxPlies
FiftyMoveLimit == 1
isDrawByFiftyMoves(g) == g.halfmove >= FiftyMoveLimit
\* threefold repetition needs more plies than an engine object built from a
\* FEN ever sees
isDraw(g) ==
  isDrawByFiftyMoves(g) \/ isStalemate(g) \/ isInsufficientMaterial(g)
isGameOver(g) ==
  isDrawByFiftyMoves(g) \/ ~HasLegalMove(g) \/ isInsufficientMaterial(g)

\* the notation the engine gives a move
San(g, m) ==
  [piece |-> g.board[m.from].type, from |-> m.from, to |-> m.to,
   capture |-> g.board[m.to] # Empty,
   promotion |-> IF IsPromotion(g.board, m.from, m.to) THEN m.promotion ELSE NoPromotion]

\* game.move({from, to, promotion}): a legal move with these endpoints is
\* played on the object itself (its move list grows by one); a requested
\* promotion piece only has to match when the move promotes.  An illegal
\* move throws (threw) and changes nothing.
move(g, mv) ==
  Only({IF cands = {}
          THEN [ok |-> FALSE, threw |-> TRUE, game |-> g, result |-> <<>>]
          ELSE Only({[ok |-> TRUE, threw |-> FALSE,
                      game |-> [board |-> Place(g.board, m.from, m.to, m.promotion),
                                turn |-> Other(g.turn),
                                halfmove |-> IF g.board[m.from].type = "p"
                                                  \/ g.board[m.to] # Empty
                                               THEN 0 ELSE g.halfmove + 1,
                                fullmove |-> IF g.turn = "b" THEN g.fullmove + 1
                                                              ELSE g.fullmove,
                                history |-> Append(g.history,
                                                   [move |-> m, prior |-> fen(g)])],
                      result |-> <<[from |-> m.from, to |-> m.to,
                                    san |-> San(g, m)]>>]
                     : m \in {CHOOSE c \in cands : TRUE}})
        : cands \in {{m \in moves(g, mv.from) :
                        /\ m.to = mv.to
                        /\ (m.promotion = NoPromotion \/ m.promotion = mv.promotion)}}})

\* game.undo(): take back the last move of the object's own move list;
\* with an empty move list it returns null and changes nothing
undo(g) ==
  IF g.history = <<>>
    THEN g
    ELSE LET h == g.history[Len(g.history)]
         IN  [board |-> h.prior.board, turn |-> h.prior.turn,
              halfmove |-> h.prior.halfmove,
              fullmove |-> h.prior.fullmove,
              history |-> SubSeq(g.history, 1, Len(g.history) - 1)]

\* game.board(): the rows of the board from the last rank down to the first,
\* each row from the first file to the last; an entry is the piece or Empty
board(g) ==
  [i \in 1..NumRanks |-> [j \in 1..NumFiles |-> g.board[<<j, NumRanks + 1 - i>>]]]

\* number of plies the position is away from the starting position
Ply(g) == 2 * (g.fullmove - 1) + (IF g.turn = "b" THEN 1 ELSE 0)

----------------------------------------------------------------------------
(* Interface "board": src/unnamed/part_000 with components/ChessBoard.tsx *)

NoMove == [from |-> NoSquare, to |-> NoSquare]
Friendly(g, square) == get(g, square) # Empty /\ get(g, square).color = turn(g)

\* updateStatus with the check test moved in front of the game-end tests
updateStatus_CheckFirst(checkmate, draw, check, t, ended) ==
  IF check
    THEN [status |-> IF t = "w" THEN "White to move (Check!)"
                                ELSE "Black to move (Check!)",
          gameEnded |-> ended]
    ELSE IF checkmate
      THEN [status |-> IF t = "w" THEN "Game Over - Checkmate! Black wins."
                                  ELSE "Game Over - Checkmate! White wins.",
            gameEnded |-> TRUE]
      ELSE IF draw
        THEN [status |-> "Game Over - Draw", gameEnded |-> TRUE]
        ELSE [status |-> IF t = "w" THEN "White to move" ELSE "Black to move",
              gameEnded |-> ended]

\* the body of part_000 updateStatus over the answers it gets from the engine
\* object: game.isCheckmate(), game.isDraw(), game.inCheck(), game.turn();
\* ended is the current flag, which the last branch does not set
updateStatus_From(checkmate, draw, check, t, ended) ==
  IF checkmate
    THEN [status |-> IF t = "w" THEN "Game Over - Checkmate! Black wins."
                                ELSE "Game Over - Checkmate! White wins.",
          gameEnded |-> TRUE]
    ELSE IF draw
      THEN [status |-> "Game Over - Draw", gameEnded |-> TRUE]
      ELSE [status |-> IF check
                         THEN (IF t = "w" THEN "White to move (Check!)"
                                          ELSE "Black to move (Check!)")
                         ELSE (IF t = "w" THEN "White to move"
                                          ELSE "Black to move"),
            gameEnded |-> ended]

\* part_000 updateStatus, run on the engine object g
updateStatus(g, ended) ==
  updateStatus_From(isCheckmate(g), isDraw(g), inCheck(g), turn(g), ended)

\* game.move is called inside try { } catch (e) { } in both makeMove functions
TryCatch == TRUE

\* makeMove without the setMoveHistory call
makeMove_NoAppend(mv) ==
  Only({IF r.ok
          THEN Only({[game |-> Chess(fen(r.game)),
                      moveHistory |-> moveHistory,
                      status |-> u.status, gameEnded |-> u.gameEnded,
                      accepted |-> TRUE, fault |-> FALSE, object |-> r.game]
                     : u \in {updateStatus(r.game, gameEnded)}})
          ELSE [game |-> game, moveHistory |-> moveHistory,
                status |-> status, gameEnded |-> gameEnded, accepted |-> FALSE,
                fault |-> r.threw /\ ~TryCatch, object |-> r.game]
        : r \in {move(game, mv)}})

\* makeMove that puts the new record in front of the history
makeMove_Prepend(mv) ==
  Only({IF r.ok
          THEN Only({[game |-> Chess(fen(r.game)),
                      moveHistory |-> r.result \o moveHistory,
                      status |-> u.status, gameEnded |-> u.gameEnded,
                      accepted |-> TRUE, fault |-> FALSE, object |-> r.game]
                     : u \in {updateStatus(r.game, gameEnded)}})
          ELSE [game |-> game, moveHistory |-> moveHistory,
                status |-> status, gameEnded |-> gameEnded, accepted |-> FALSE,
                fault |-> r.threw /\ ~TryCatch, object |-> r.game]
        : r \in {move(game, mv)}})

\* part_000 makeMove: r is the outcome of game.move(move) on the current
\* engine object, u what updateStatus reads from that same object; a fresh
\* object is built from its FEN and the result is appended to the history
makeMove(mv) ==
  Only({IF r.ok
          THEN Only({[game |-> Chess(fen(r.game)),
                      moveHistory |-> moveHistory \o r.result,
                      status |-> u.status, gameEnded |-> u.gameEnded,
                      accepted |-> TRUE, fault |-> FALSE, object |-> r.game]
                     : u \in {updateStatus(r.game, gameEnded)}})
          ELSE [game |-> game, moveHistory |-> moveHistory,
                status |-> status, gameEnded |-> gameEnded, accepted |-> FALSE,
                fault |-> r.threw /\ ~TryCatch, object |-> r.game]
        : r \in {move(game, mv)}})

\* part_000 undoMove: g is the engine object after game.undo()
undoMove ==
  Only({Only({[game |-> Chess(fen(g)),
               moveHistory |-> SubSeq(moveHistory, 1, Len(moveHistory) - 1),
               status |-> u.status, gameEnded |-> u.gameEnded, object |-> g]
              : u \in {updateStatus(g, gameEnded)}})
        : g \in {undo(game)}})

\* part_000 resetGame
resetGame ==
  [game |-> Chess(DefaultFen), moveHistory |-> <<>>,
   gameEnded |-> FALSE, status |-> "White to move"]

\* handleSquareClick that keeps the old hints when another piece is selected
ChessBoard_handleSquareClick_StaleHints(square) ==
  IF selectedSquare = square
    THEN [selectedSquare |-> NoSquare, hintSquares |-> {}, onMove |-> <<>>]
    ELSE IF Friendly(game, square)
      THEN [selectedSquare |-> square,
            hintSquares |-> IF selectedSquare # NoSquare THEN hintSquares
                            ELSE {m.to : m \in moves(game, square)},
            onMove |-> <<>>]
      ELSE IF selectedSquare # NoSquare /\ square \in hintSquares
        THEN [selectedSquare |-> NoSquare, hintSquares |-> {},
              onMove |-> <<[from |-> selectedSquare, to |-> square,
                            promotion |-> "q"]>>]
        ELSE [selectedSquare |-> NoSquare, hintSquares |-> {}, onMove |-> <<>>]

\* handleSquareClick that selects any piece, whatever its colour
ChessBoard_handleSquareClick_AnyPiece(square) ==
  IF selectedSquare = square
    THEN [selectedSquare |-> NoSquare, hintSquares |-> {}, onMove |-> <<>>]
    ELSE IF get(game, square) # Empty
      THEN [selectedSquare |-> square,
            hintSquares |-> {m.to : m \in moves(game, square)},
            onMove |-> <<>>]
      ELSE IF selectedSquare # NoSquare /\ square \in hintSquares
        THEN [selectedSquare |-> NoSquare, hintSquares |-> {},
              onMove |-> <<[from |-> selectedSquare, to |-> square,
                            promotion |-> "q"]>>]
        ELSE [selectedSquare |-> NoSquare, hintSquares |-> {}, onMove |-> <<>>]

\* handleSquareClick that drops the selection when another piece of the side
\* to move is clicked while a square is selected
ChessBoard_handleSquareClick_ClearFirst(square) ==
  IF selectedSquare = square
    THEN [selectedSquare |-> NoSquare, hintSquares |-> {}, onMove |-> <<>>]
    ELSE IF Friendly(game, square) /\ selectedSquare = NoSquare
      THEN [selectedSquare |-> square,
            hintSquares |-> {m.to : m \in moves(game, square)},
            onMove |-> <<>>]
      ELSE IF selectedSquare # NoSquare /\ square \in hintSquares
        THEN [selectedSquare |-> NoSquare, hintSquares |-> {},
              onMove |-> <<[from |-> selectedSquare, to |-> square,
                            promotion |-> "q"]>>]
        ELSE [selectedSquare |-> NoSquare, hintSquares |-> {}, onMove |-> <<>>]

\* handleSquareClick that keeps the selection when the click hits neither a
\* piece of the side to move nor a hint
ChessBoard_handleSquareClick_KeepOnMiss(square) ==
  IF selectedSquare = square
    THEN [selectedSquare |-> NoSquare, hintSquares |-> {}, onMove |-> <<>>]
    ELSE IF Friendly(game, square)
      THEN [selectedSquare |-> square,
            hintSquares |-> {m.to : m \in moves(game, square)},
            onMove |-> <<>>]
      ELSE IF selectedSquare # NoSquare /\ square \in hintSquares
        THEN [selectedSquare |-> NoSquare, hintSquares |-> {},
              onMove |-> <<[from |-> selectedSquare, to |-> square,
                            promotion |-> "q"]>>]
        ELSE [selectedSquare |-> selectedSquare, hintSquares |-> hintSquares,
              onMove |-> <<>>]

\* ChessBoard.handleSquareClick: the new selection, the new hints and the
\* move handed to onMove (<<>> when none)
ChessBoard_handleSquareClick(square) ==
  IF selectedSquare = square
    THEN [selectedSquare |-> NoSquare, hintSquares |-> {}, onMove |-> <<>>]
    ELSE IF Friendly(game, square)
      THEN [selectedSquare |-> square,
            hintSquares |-> {m.to : m \in moves(game, square)},
            onMove |-> <<>>]
      ELSE IF selectedSquare # NoSquare /\ square \in hintSquares
        THEN [selectedSquare |-> NoSquare, hintSquares |-> {},
              onMove |-> <<[from |-> selectedSquare, to |-> square,
                            promotion |-> "q"]>>]
        ELSE [selectedSquare |-> NoSquare, hintSquares |-> {}, onMove |-> <<>>]

\* the board list with the rank of a square taken from the row index as it is
ChessBoard_board_RankFromTop(g) ==
  [k \in 1..(NumRanks * NumFiles) |->
     Only({[square |-> <<c.j + 1, c.i + 1>>,
            piece |-> board(g)[c.i + 1][c.j + 1],
            color |-> IF (c.i + c.j) % 2 = 0 THEN "light" ELSE "dark"]
           : c \in {[i |-> (k - 1) \div NumFiles, j |-> (k - 1) % NumFiles]}})]

\* ChessBoard's board list: the loops over i (rows) and j (columns) push one
\* descriptor each, the k-th push being i = (k - 1) div width, j = (k - 1) mod
\* width; the square name is file a + j, rank (number of ranks) - i
ChessBoard_board(g) ==
  [k \in 1..(NumRanks * NumFiles) |->
     Only({[square |-> <<c.j + 1, NumRanks - c.i>>,
            piece |-> board(g)[c.i + 1][c.j + 1],
            color |-> IF (c.i + c.j) % 2 = 0 THEN "light" ELSE "dark"]
           : c \in {[i |-> (k - 1) \div NumFiles, j |-> (k - 1) % NumFiles]}})]

\* the lastMove prop part_000 hands to ChessBoard: moveHistory[length - 1]
LastMoveProp ==
  IF moveHistory = <<>> THEN NoMove
  ELSE [from |-> moveHistory[Len(moveHistory)].from,
        to |-> moveHistory[Len(moveHistory)].to]

\* what the handler run left behind for the properties to look at; object is
\* the engine object that was installed when the handler started, as the
\* handler left it
Seen(op, sq, submitted, accepted, fault, ran, ret, object) ==
  [op |-> op, sq |-> sq, sel |-> selectedSquare, submitted |-> submitted,
   accepted |-> accepted, fault |-> fault, ran |-> ran, ret |-> ret,
   before |-> IF accepted THEN <<fen(game)>> ELSE <<>>,
   held |-> fen(object)]

\* a click on a board square: ChessBoard's handler, and makeMove when the
\* handler calls onMove
BoardClick(square) ==
  /\ ui = "board"
  /\ \E c \in {ChessBoard_handleSquareClick(square)} :
       /\ selectedSquare' = c.selectedSquare
       /\ hintSquares' = c.hintSquares
       /\ IF c.onMove = <<>>
            THEN /\ UNCHANGED <<game, moveHistory, status, gameEnded>>
                 /\ last' = Seen("click", square, <<>>, FALSE, FALSE, TRUE, "void",
                                      game)
            ELSE /\ Ply(game) < MaxPlies
                 /\ \E m \in {makeMove(c.onMove[1])} :
                      /\ game' = m.game
                      /\ moveHistory' = m.moveHistory
                      /\ status' = m.status
                      /\ gameEnded' = m.gameEnded
                      /\ last' = Seen("click", square, c.onMove, m.accepted,
                                      m.fault, TRUE, "void", m.object)
  /\ UNCHANGED <<ui, lastMove>>

\* the Undo button without its disabled attribute
UndoClick_NotDisabled ==
  /\ ui = "board"
  /\ \E n \in {undoMove} :
       /\ game' = n.game
       /\ moveHistory' = n.moveHistory
       /\ status' = n.status
       /\ gameEnded' = n.gameEnded
       /\ last' = Seen("undo", NoSquare, <<>>, FALSE, FALSE, TRUE, "void",
                       n.object)
  /\ UNCHANGED <<ui, selectedSquare, hintSquares, lastMove>>

\* a click on "Undo Move"; the button is disabled while the history is empty
UndoClick ==
  /\ ui = "board"
  /\ IF Len(moveHistory) = 0
       THEN /\ UNCHANGED <<game, moveHistory, status, gameEnded>>
            /\ last' = Seen("undo", NoSquare, <<>>, FALSE, FALSE, FALSE, "void",
                            game)
       ELSE /\ \E n \in {undoMove} :
                 /\ game' = n.game
                 /\ moveHistory' = n.moveHistory
                 /\ status' = n.status
                 /\ gameEnded' = n.gameEnded
                 /\ last' = Seen("undo", NoSquare, <<>>, FALSE, FALSE, TRUE,
                                 "void", n.object)
  /\ UNCHANGED <<ui, selectedSquare, hintSquares, lastMove>>

\* a click on "New Game"
ResetClick ==
  /\ ui = "board"
  /\ game' = resetGame.game
  /\ moveHistory' = resetGame.moveHistory
  /\ gameEnded' = resetGame.gameEnded
  /\ status' = resetGame.status
  /\ last' = Seen("reset", NoSquare, <<>>, FALSE, FALSE, TRUE, "void", game)
  /\ UNCHANGED <<ui, selectedSquare, hintSquares, lastMove>>

----------------------------------------------------------------------------
(* Interface "app": src/src/App.tsx *)

\* makeMove that records the endpoints before it knows the engine's answer
App_makeMove_EagerLastMove(mv) ==
  Only({IF r.ok
          THEN [game |-> Chess(fen(r.game)),
                lastMove |-> [from |-> mv.from, to |-> mv.to],
                moveHistory |-> Append(moveHistory, r.result[1].san),
                selectedSquare |-> NoSquare, ret |-> TRUE, fault |-> FALSE,
                object |-> r.game]
          ELSE [game |-> game, lastMove |-> [from |-> mv.from, to |-> mv.to],
                moveHistory |-> moveHistory,
                selectedSquare |-> selectedSquare, ret |-> FALSE,
                fault |-> r.threw /\ ~TryCatch, object |-> r.game]
        : r \in {move(game, mv)}})

\* App.tsx makeMove: r is the outcome of game.move(move)
App_makeMove(mv) ==
  Only({IF r.ok
          THEN [game |-> Chess(fen(r.game)),
                lastMove |-> [from |-> mv.from, to |-> mv.to],
                moveHistory |-> Append(moveHistory, r.result[1].san),
                selectedSquare |-> NoSquare, ret |-> TRUE, fault |-> FALSE,
                object |-> r.game]
          ELSE [game |-> game, lastMove |-> lastMove, moveHistory |-> moveHistory,
                selectedSquare |-> selectedSquare, ret |-> FALSE,
                fault |-> r.threw /\ ~TryCatch, object |-> r.game]
        : r \in {move(game, mv)}})

\* the state as App.tsx handleSquareClick found it, with another selection
Selecting(square) ==
  [game |-> game, lastMove |-> lastMove, moveHistory |-> moveHistory,
   selectedSquare |-> square, submitted |-> <<>>, accepted |-> FALSE,
   fault |-> FALSE, object |-> game]

\* handleSquareClick without the selectedSquare === square branch
App_handleSquareClick_NoToggle(square) ==
  IF isGameOver(game)
    THEN Selecting(selectedSquare)
    ELSE IF Friendly(game, square)
      THEN Selecting(square)
      ELSE IF selectedSquare # NoSquare
        THEN Only({[game |-> m.game, lastMove |-> m.lastMove,
                    moveHistory |-> m.moveHistory,
                    selectedSquare |-> IF m.ret THEN m.selectedSquare
                                       ELSE IF Friendly(game, square) THEN square
                                       ELSE NoSquare,
                    submitted |-> <<[from |-> selectedSquare, to |-> square,
                                     promotion |-> "q"]>>,
                    accepted |-> m.ret, fault |-> m.fault,
                    object |-> m.object]
                   : m \in {App_makeMove([from |-> selectedSquare, to |-> square,
                                          promotion |-> "q"])}})
        ELSE Selecting(selectedSquare)

\* handleSquareClick that submits its move without a promotion piece
App_handleSquareClick_NoPromotion(square) ==
  IF isGameOver(game)
    THEN Selecting(selectedSquare)
    ELSE IF selectedSquare = square
      THEN Selecting(NoSquare)
      ELSE IF Friendly(game, square)
        THEN Selecting(square)
        ELSE IF selectedSquare # NoSquare
          THEN Only({[game |-> m.game, lastMove |-> m.lastMove,
                      moveHistory |-> m.moveHistory,
                      selectedSquare |-> IF m.ret THEN m.selectedSquare
                                         ELSE IF Friendly(game, square) THEN square
                                         ELSE NoSquare,
                      submitted |-> <<[from |-> selectedSquare, to |-> square,
                                       promotion |-> NoPromotion]>>,
                      accepted |-> m.ret, fault |-> m.fault,
                      object |-> m.object]
                     : m \in {App_makeMove([from |-> selectedSquare, to |-> square,
                                            promotion |-> NoPromotion])}})
          ELSE Selecting(selectedSquare)

\* App.tsx handleSquareClick: the new state and the move submitted (<<>> =
\* none); m is what makeMove did and returned
App_handleSquareClick(square) ==
  IF isGameOver(game)
    THEN Selecting(selectedSquare)
    ELSE IF selectedSquare = square
      THEN Selecting(NoSquare)
      ELSE IF Friendly(game, square)
        THEN Selecting(square)
        ELSE IF selectedSquare # NoSquare
          THEN Only({[game |-> m.game, lastMove |-> m.lastMove,
                      moveHistory |-> m.moveHistory,
                      selectedSquare |-> IF m.ret THEN m.selectedSquare
                                         ELSE IF Friendly(game, square) THEN square
                                         ELSE NoSquare,
                      submitted |-> <<[from |-> selectedSquare, to |-> square,
                                       promotion |-> "q"]>>,
                      accepted |-> m.ret, fault |-> m.fault,
                    object |-> m.object]
                     : m \in {App_makeMove([from |-> selectedSquare, to |-> square,
                                            promotion |-> "q"])}})
          ELSE Selecting(selectedSquare)

\* resetGame without setLastMove(null)
App_resetGame_KeepLastMove ==
  [game |-> Chess(DefaultFen), selectedSquare |-> NoSquare,
   lastMove |-> lastMove, moveHistory |-> <<>>]

\* App.tsx resetGame
App_resetGame ==
  [game |-> Chess(DefaultFen), selectedSquare |-> NoSquare,
   lastMove |-> NoMove, moveHistory |-> <<>>]

\* App.tsx getValidMoves / validMoves (recomputed from selectedSquare and game)
getValidMoves(square) == {m.to : m \in moves(game, square)}
validMoves == IF selectedSquare # NoSquare THEN getValidMoves(selectedSquare) ELSE {}

\* what App.tsx renders about the game: the "Game Over" banner with its
\* checkmate or draw line, else the CHECK badge, else neither
App_statusRendering(gameOver, checkmate, check) ==
  IF gameOver
    THEN (IF checkmate THEN "Checkmate" ELSE "Draw")
    ELSE IF check /\ ~gameOver THEN "Check" ELSE "InProgress"

\* the squares App.tsx renders: board.map over the rows (i) and row.map over a
\* row (j), with the square name and isDark computed from i and j
App_boardRendering(g) ==
  [k \in 1..(NumRanks * NumFiles) |->
     Only({[square |-> <<c.j + 1, NumRanks - c.i>>,
            piece |-> board(g)[c.i + 1][c.j + 1],
            color |-> IF (c.i + c.j) % 2 = 1 THEN "dark" ELSE "light"]
           : c \in {[i |-> (k - 1) \div NumFiles, j |-> (k - 1) % NumFiles]}})]

AppClick(square) ==
  /\ ui = "app"
  /\ \E c \in {App_handleSquareClick(square)} :
       /\ c.submitted # <<>> => Ply(game) < MaxPlies
       /\ game' = c.game
       /\ lastMove' = c.lastMove
       /\ moveHistory' = c.moveHistory
       /\ selectedSquare' = c.selectedSquare
       /\ last' = Seen("click", square, c.submitted, c.accepted, c.fault, TRUE,
                       "void", c.object)
  /\ UNCHANGED <<ui, status, gameEnded, hintSquares>>

AppResetClick ==
  /\ ui = "app"
  /\ game' = App_resetGame.game
  /\ selectedSquare' = App_resetGame.selectedSquare
  /\ lastMove' = App_resetGame.lastMove
  /\ moveHistory' = App_resetGame.moveHistory
  /\ last' = Seen("reset", NoSquare, <<>>, FALSE, FALSE, TRUE, "void", game)
  /\ UNCHANGED <<ui, status, gameEnded, hintSquares>>

----------------------------------------------------------------------------
(* The state machine *)

Init ==
  /\ ui \in {"board", "app"}
  /\ game = Chess(DefaultFen)
  /\ moveHistory = <<>>
  /\ status = "White to move"
  /\ gameEnded = FALSE
  /\ selectedSquare = NoSquare
  /\ hintSquares = {}
  /\ lastMove = NoMove
  /\ last = [op |-> "init", sq |-> NoSquare, sel |-> NoSquare, submitted |-> <<>>,
             accepted |-> FALSE, fault |-> FALSE, ran |-> FALSE, ret |-> "void",
             before |-> <<>>, held |-> DefaultFen]

Next ==
  \/ \E square \in Squares : BoardClick(square)
  \/ UndoClick
  \/ ResetClick
  \/ \E square \in Squares : AppClick(square)
  \/ AppResetClick

Spec == Init /\ [][Next]_vars

----------------------------------------------------------------------------
(* Views shared by the two interfaces *)

Hints == IF ui = "board" THEN hintSquares ELSE validMoves
LastMove == IF ui = "board" THEN LastMoveProp ELSE lastMove
legalDestinations(g, square) == {m.to : m \in moves(g, square)}

\* the status a text of part_000 stands for
Kind(text) ==
  IF text \in {"Game Over - Checkmate! Black wins.",
               "Game Over - Checkmate! White wins."} THEN "Checkmate"
  ELSE IF text = "Game Over - Draw" THEN "Draw"
  ELSE IF text \in {"White to move (Check!)", "Black to move (Check!)"}
    THEN "Check"
  ELSE "InProgress"

\* the status the interface derives from a position
StatusResolver(g) ==
  IF ui = "board"
    THEN Kind(updateStatus(g, gameEnded).status)
    ELSE App_statusRendering(isGameOver(g), isCheckmate(g), inCheck(g))

\* the descriptors the interface renders for the current position
Projection ==
  IF ui = "board" THEN ChessBoard_board(game) ELSE App_boardRendering(game)

\* the priority Checkmate > Draw > Check > InProgress
Priority(checkmate, drawn, check) ==
  IF checkmate THEN "Checkmate"
  ELSE IF drawn THEN "Draw"
  ELSE IF check THEN "Check"
  ELSE "InProgress"

----------------------------------------------------------------------------
(* Properties *)

Click == last'.op = "click"
MoveAccepted == Click /\ last'.accepted
MoveRejected == Click /\ last'.submitted # <<>> /\ ~last'.accepted
CheckmateOrDraw ==
  IF ui = "board"
    THEN status \in {"Game Over - Checkmate! Black wins.",
                     "Game Over - Checkmate! White wins.", "Game Over - Draw"}
    ELSE isGameOver(game)

\* C1: a move accepted and then undone gives back the FEN the position had
\* before the move, and the history is one shorter than after the move
C1_UndoIsLeftInverse ==
  [][(last.op = "click" /\ last.accepted /\ last'.op = "undo" /\ last'.ran)
       => /\ fen(game') = last.before[1]
          /\ Len(moveHistory') = Len(moveHistory) - 1]_vars

\* C2: while the status is Checkmate or Draw every square click leaves the
\* selection idle, submits no move and changes neither position nor history
C2_GameOverGating ==
  [][(CheckmateOrDraw /\ Click)
       => /\ selectedSquare' = NoSquare /\ Hints' = {}
          /\ last'.submitted = <<>>
          /\ UNCHANGED <<game, moveHistory>>]_vars

\* C3: the history is as long as the number of plies the current position
\* is away from the starting position of the last reset
C3_HistoryMatchesPosition == Len(moveHistory) = Ply(game)

\* C4: an accepted move makes the history exactly one longer, leaves the
\* selection idle with no hints, and LastMove is the move's {from, to}
C4_AcceptedMove ==
  [][MoveAccepted
       => /\ Len(moveHistory') = Len(moveHistory) + 1
          /\ selectedSquare' = NoSquare /\ Hints' = {}
          /\ LastMove' = [from |-> selectedSquare, to |-> last'.sq]]_vars
C4_Witness == last.op = "click" /\ last.accepted /\ LastMove.to = last.sq

\* C5: hints are non-empty only when the selected square holds a piece of
\* the side to move, and they are the legal destinations of the selected
\* square in the current position
C5_SelectionInvariant ==
  /\ Hints # {} => (selectedSquare # NoSquare /\ Friendly(game, selectedSquare))
  /\ Hints = IF selectedSquare # NoSquare
               THEN legalDestinations(game, selectedSquare) ELSE {}

\* C6: a click on a not yet selected square that holds a piece of the side
\* to move selects it with exactly that square's legal destinations as
\* hints, an empty set included
C6_SelectYieldsLegalDestinations ==
  [][(Click /\ Friendly(game, last'.sq) /\ selectedSquare # last'.sq
        /\ ~(ui = "app" /\ isGameOver(game)))
       => /\ selectedSquare' = last'.sq
          /\ Hints' = legalDestinations(game, last'.sq)
          /\ last'.submitted = <<>>
          /\ UNCHANGED game]_vars
C6_Witness ==
  /\ last.op = "click" /\ selectedSquare = last.sq /\ last.sel # NoSquare
  /\ Hints = {} /\ ~isGameOver(game)

\* C7: a move the engine rejects lets no exception out of the handler,
\* leaves position, LastMove and history as they were, and the selection
\* goes back to idle with no hints
C7_RejectedMove ==
  [][MoveRejected
       => /\ ~last'.fault
          /\ UNCHANGED <<game, moveHistory>>
          /\ LastMove' = LastMove
          /\ selectedSquare' = NoSquare /\ Hints' = {}]_vars
C7_Witness ==
  last.op = "click" /\ last.submitted # <<>> /\ ~last.accepted /\ LastMove # NoMove

\* C8 as stated: an undo on an empty history changes nothing and returns false
C8_UndoOnEmptyReturnsFalse ==
  [][(ui = "board" /\ last'.op = "undo" /\ Len(moveHistory) = 0)
       => /\ UNCHANGED <<game, moveHistory, status, gameEnded>>
          /\ LastMove' = LastMove
          /\ last'.ret = "false"]_vars

\* C8 (amended): an undo request on an empty history changes nothing; the
\* button is disabled, undoMove is not run and nothing is returned
C8_UndoOnEmptyIsIgnored ==
  [][(ui = "board" /\ last'.op = "undo" /\ Len(moveHistory) = 0)
       => /\ UNCHANGED <<game, moveHistory, status, gameEnded>>
          /\ LastMove' = LastMove
          /\ ~last'.ran /\ last'.ret = "void"]_vars
C8_Witness ==
  last.op = "undo" /\ ~last.ran /\ moveHistory = <<>> /\ Ply(game) > 0

\* C9: with nothing selected, a click on an empty square or on a piece of
\* the side not to move changes nothing and submits no move
C9_IdleClickIgnored ==
  [][(Click /\ selectedSquare = NoSquare /\ ~Friendly(game, last'.sq))
       => /\ UNCHANGED <<selectedSquare, hintSquares, game, moveHistory, lastMove>>
          /\ Hints' = Hints /\ LastMove' = LastMove
          /\ last'.submitted = <<>>]_vars
C9_Witness ==
  /\ last.op = "click" /\ last.sel = NoSquare /\ selectedSquare = NoSquare
  /\ get(game, last.sq) # Empty /\ ~Friendly(game, last.sq)

\* C10: a click on the selected square clears selection and hints, submits
\* no move and changes neither position nor history
C10_ToggleOff ==
  [][(Click /\ selectedSquare # NoSquare /\ last'.sq = selectedSquare)
       => /\ selectedSquare' = NoSquare /\ Hints' = {}
          /\ last'.submitted = <<>>
          /\ UNCHANGED <<game, moveHistory>>]_vars
C10_Witness ==
  /\ last.op = "click" /\ last.sel = last.sq /\ selectedSquare = NoSquare
  /\ Friendly(game, last.sq) /\ legalDestinations(game, last.sq) # {}

\* C11: with a square selected, a click on another square that holds a piece
\* of the side to move selects that square in the same step, with that
\* square's legal destinations as hints; no move is submitted and position
\* and history are unchanged
C11_Reselection ==
  [][(Click /\ selectedSquare # NoSquare /\ last'.sq # selectedSquare
        /\ Friendly(game, last'.sq))
       => /\ selectedSquare' = last'.sq
          /\ Hints' = legalDestinations(game, last'.sq)
          /\ last'.submitted = <<>>
          /\ UNCHANGED <<game, moveHistory>>]_vars
C11_Witness ==
  /\ last.op = "click" /\ last.sel # NoSquare /\ last.sel # last.sq
  /\ selectedSquare = last.sq /\ Friendly(game, last.sq) /\ Hints # {}
  /\ legalDestinations(game, last.sel) # {}

\* C12: the status derived from a position follows the priority Checkmate >
\* Draw > Check > InProgress, for every combination of answers the engine
\* gives (the second flag being isDraw for part_000 and isGameOver, which
\* checkmate implies, for App.tsx) and for the current position
C12_StatusPriority ==
  /\ \A cm \in BOOLEAN, dr \in BOOLEAN, ch \in BOOLEAN :
       /\ \A t \in {"w", "b"}, e \in BOOLEAN :
            Kind(updateStatus_From(cm, dr, ch, t, e).status) = Priority(cm, dr, ch)
       /\ App_statusRendering(cm \/ dr, cm, ch) = Priority(cm, cm \/ dr, ch)
  /\ StatusResolver(game)
       = Priority(isCheckmate(game),
                  IF ui = "board" THEN isDraw(game) ELSE isGameOver(game),
                  inCheck(game))
C12_Witness ==
  /\ last.op = "click" /\ last.accepted
  /\ isCheckmate(game) /\ inCheck(game) /\ StatusResolver(game) = "Checkmate"

\* C13: in every step the position, LastMove and the history change
\* together: none of them changes without the other two
C13_AtomicCommit ==
  [][/\ (fen(game') # fen(game)) <=> (moveHistory' # moveHistory)
     /\ (fen(game') # fen(game)) <=> (LastMove' # LastMove)]_vars

\* C14: the engine object installed before a step holds the same position
\* after the step as before it
C14_SnapshotImmutable ==
  [][last'.held = fen(game)]_vars

\* C15: LastMove is none exactly when the history is empty, and otherwise it
\* is the {from, to} of the last history entry
C15_LastMoveMirrorsLog ==
  /\ (LastMove = NoMove) <=> (moveHistory = <<>>)
  /\ moveHistory # <<>>
       => LastMove = [from |-> moveHistory[Len(moveHistory)].from,
                      to |-> moveHistory[Len(moveHistory)].to]
C15_Witness ==
  /\ last.op = "undo" /\ last.ran /\ moveHistory # <<>>
  /\ LastMove = [from |-> moveHistory[1].from, to |-> moveHistory[1].to]

\* C16: a step leaves the history as it is, or an accepted move appends one
\* record (that move's) at its end, or an undo removes exactly its last
\* record, or a reset empties it
C16_HistoryAppendOnly ==
  [][\/ moveHistory' = moveHistory
     \/ /\ MoveAccepted
        /\ Len(moveHistory') = Len(moveHistory) + 1
        /\ SubSeq(moveHistory', 1, Len(moveHistory)) = moveHistory
        /\ moveHistory'[Len(moveHistory')].from = selectedSquare
        /\ moveHistory'[Len(moveHistory')].to = last'.sq
     \/ /\ last'.op = "undo" /\ moveHistory # <<>>
        /\ moveHistory' = SubSeq(moveHistory, 1, Len(moveHistory) - 1)
     \/ /\ last'.op = "reset"
        /\ moveHistory' = <<>>]_vars
C16_Witness ==
  /\ last.op = "click" /\ last.accepted /\ Len(moveHistory) = 2
  /\ moveHistory[2].to = last.sq /\ moveHistory[1] # moveHistory[2]

\* C17: game.undo() is run only while the history is not empty, and the
\* engine object it is run on has, as the last move of its own move list,
\* the move of the last history record
C17_RewindHasPly ==
  [][(last'.op = "undo" /\ last'.ran)
       => /\ moveHistory # <<>>
          /\ game.history # <<>>
          /\ game.history[Len(game.history)].move.from
               = moveHistory[Len(moveHistory)].from
          /\ game.history[Len(game.history)].move.to
               = moveHistory[Len(moveHistory)].to]_vars

\* C18: the stored status text is the text updateStatus gives for the
\* current position, and the stored game-ended flag is true exactly when the
\* current position is checkmate or a draw (App.tsx stores neither: it
\* derives both from the engine object on every render)
C18_StatusNeverStale ==
  ui = "board"
    => /\ status = updateStatus(game, gameEnded).status
       /\ gameEnded <=> (isCheckmate(game) \/ isDraw(game))

\* C19: with a square selected, a click on a square that is not the selected
\* one, holds no piece of the side to move and is no legal destination of
\* the selected square clears selection and hints and changes neither
\* position nor LastMove nor history
C19_Cancel ==
  [][(Click /\ selectedSquare # NoSquare /\ last'.sq # selectedSquare
        /\ ~Friendly(game, last'.sq)
        /\ last'.sq \notin legalDestinations(game, selectedSquare))
       => /\ selectedSquare' = NoSquare /\ Hints' = {}
          /\ ~last'.accepted
          /\ UNCHANGED <<game, moveHistory>>
          /\ LastMove' = LastMove]_vars
C19_Witness ==
  /\ last.op = "click" /\ last.sel # NoSquare /\ last.sq # last.sel
  /\ get(game, last.sq) # Empty /\ ~Friendly(game, last.sq)
  /\ last.sq \notin legalDestinations(game, last.sel)
  /\ legalDestinations(game, last.sel) # {}
  /\ selectedSquare = NoSquare /\ ~last.accepted

\* C20: a reset gives the initial position, an empty history, no LastMove,
\* the status InProgress and the game-ended condition false; and a click
\* right after a reset on a piece of the side to move selects that piece
C20_FullReset ==
  [][/\ last'.op = "reset"
          => /\ fen(game') = DefaultFen
             /\ moveHistory' = <<>>
             /\ LastMove' = NoMove
             /\ IF ui = "board"
                  THEN Kind(status') = "InProgress" /\ ~gameEnded'
                  ELSE StatusResolver(game') = "InProgress" /\ ~isGameOver(game')
     /\ (last.op = "reset" /\ Click /\ Friendly(game, last'.sq))
          => /\ selectedSquare' = last'.sq
             /\ last'.submitted = <<>>]_vars

\* C21: every move a click submits goes from the selected square to the
\* clicked square with promotion "q"; submitted so, a legal move is accepted
\* whether it promotes or not, and a promoting pawn becomes a queen
C21_AutoPromotion ==
  [][(Click /\ last'.submitted # <<>>)
       => /\ last'.submitted
               = <<[from |-> selectedSquare, to |-> last'.sq, promotion |-> "q"]>>
          /\ last'.sq \in legalDestinations(game, selectedSquare)
               => /\ last'.accepted
                  /\ get(game', last'.sq)
                       = IF IsPromotion(game.board, selectedSquare, last'.sq)
                           THEN Pc("q", turn(game))
                           ELSE get(game, selectedSquare)]_vars
C21_Witness ==
  /\ last.op = "click" /\ last.accepted
  /\ last.submitted[1].promotion = "q"
  /\ get(game, last.sq).type = "k"

\* C22: the projection of the current position has one descriptor per square
\* of the board, with pairwise distinct squares (as many squares as
\* descriptors) covering the board; the
\* descriptor of row i, column j (last rank first, first file first) has the
\* square of file j + 1 and rank (number of ranks) - i, the piece the
\* position holds on that square, and is light exactly when i + j is even
C22_BoardProjection ==
  /\ DOMAIN Projection = 1..(NumFiles * NumRanks)
  /\ Cardinality({Projection[k].square : k \in DOMAIN Projection})
       = NumFiles * NumRanks
  /\ {Projection[k].square : k \in DOMAIN Projection} = Squares
  /\ \A i \in 0..(NumRanks - 1), j \in 0..(NumFiles - 1) :
       \E d \in {Projection[i * NumFiles + j + 1]} :
         /\ d.square = <<j + 1, NumRanks - i>>
         /\ d.piece = get(game, <<j + 1, NumRanks - i>>)
         /\ d.color \in {"light", "dark"}
         /\ (d.color = "light") <=> ((i + j) % 2 = 0)
C22_Witness ==
  /\ last.op = "click" /\ last.accepted
  /\ \E k \in DOMAIN Projection :
       /\ Projection[k].square = last.sq
       /\ Projection[k].piece # Empty
       /\ Projection[k].piece = get(game, last.sq)
  /\ \E k \in DOMAIN Projection :
       Projection[k].square = last.sel /\ Projection[k].piece = Empty

====
